---------------------------- MODULE Spec2Model ----------------------------
(***************************************************************************)
(* Bayesian calibration notebook (baycal_elm-latest.ipynb): log-posterior  *)
(* (lnprior, lnlike, lnprob), the emcee ensemble run, burn-in trimming,    *)
(* the Gelman-Rubin diagnostic with its R_hat gate, and the cells that     *)
(* save, reload, flatten and propagate the posterior sample.               *)
(*                                                                         *)
(* Numbers.  Parameter components live on an integer grid: the integer v   *)
(* stands for the real v / Unit, so the prior's box [0,1] is 0 .. Unit.    *)
(* Predicted NRMSE values are integers in hundredths (0.40 is 40).  A      *)
(* float is a record: [k |-> "fin", v |-> n], or one of the IEEE specials  *)
(* "pinf", "ninf", "nan".  A finite log-probability n stands for the real  *)
(* n / LogDen with LogDen = 2 * desired_std^2.                             *)
(***************************************************************************)
EXTENDS Integers, Sequences, FiniteSets

\* ------------------------------------------------------------- bounds
\* The notebook runs ndim = 5, nwalkers = 50, nsteps = 20000; the model is
\* scaled down so that the ensemble can be enumerated.
MaxDim == 2
HalfWalkers == 1
MaxSteps == 3
Unit == 8
MaxSamples == 1

\* ------------------------------------------------- program constants
desired_nrmse == 40
desired_std == 2
a == 2

ndim == MaxDim
nwalkers == 2 * HalfWalkers
nsteps == MaxSteps
n_samples == MaxSamples

Dims == 0 .. (ndim - 1)
Walkers == 0 .. (nwalkers - 1)

\* ------------------------------------------------------------- floats
Fin(n) == [k |-> "fin", v |-> n]
PInf == [k |-> "pinf", v |-> 0]
NInf == [k |-> "ninf", v |-> 0]
NaN == [k |-> "nan", v |-> 0]

\* np.isfinite
isfinite(x) == x.k = "fin"

\* x + y on floats (the only sums the program forms have a finite left side
\* or an infinite one of either sign).
FAdd(x, y) ==
  CASE x.k = "nan" \/ y.k = "nan" -> NaN
    [] x.k = "fin" /\ y.k = "fin" -> Fin(x.v + y.v)
    [] x.k = "fin" -> y
    [] y.k = "fin" -> x
    [] x.k = y.k -> x
    [] OTHER -> NaN

LogDen == 2 * desired_std * desired_std

\* ---------------------------------------------------------- posterior
\* What gpr_model.predict([theta])[0] can answer: a finite value, a
\* non-finite one, or an exception ("raise").
PredVals == { desired_nrmse - 2, desired_nrmse, desired_nrmse + 4 }
PredictOutcomes == { Fin(p) : p \in PredVals } \cup { PInf, NInf, NaN }
                     \cup { [k |-> "raise", v |-> 0] }

\* Variant: the upper bound of the box forgotten.
lnprior_lower_only(theta) ==
  IF \A i \in DOMAIN theta : theta[i] >= 0 THEN Fin(0) ELSE NInf

lnprior(theta) ==
  IF (\A i \in DOMAIN theta : theta[i] >= 0) /\ (\A i \in DOMAIN theta : theta[i] <= Unit)
  THEN Fin(0)
  ELSE NInf

\* Variant: the factor 0.5 forgotten.
lnlike_no_half(theta, out) ==
  CASE out.k = "raise" -> [ret |-> NaN, raised |-> TRUE, calls |-> 1]
    [] out.k = "fin" ->
         [ret |-> Fin(0 - (2 * (out.v - desired_nrmse) * (out.v - desired_nrmse))),
          raised |-> FALSE, calls |-> 1]
    [] out.k = "nan" -> [ret |-> NaN, raised |-> FALSE, calls |-> 1]
    [] OTHER -> [ret |-> NInf, raised |-> FALSE, calls |-> 1]

\* -0.5 * ((predicted_nrmse - desired_nrmse) / desired_std)**2, in units of
\* 1 / LogDen; `out` is the predictor's answer to this call.
lnlike(theta, out) ==
  CASE out.k = "raise" -> [ret |-> NaN, raised |-> TRUE, calls |-> 1]
    [] out.k = "fin" ->
         [ret |-> Fin(0 - ((out.v - desired_nrmse) * (out.v - desired_nrmse))),
          raised |-> FALSE, calls |-> 1]
    [] out.k = "nan" -> [ret |-> NaN, raised |-> FALSE, calls |-> 1]
    [] OTHER -> [ret |-> NInf, raised |-> FALSE, calls |-> 1]

\* Variant: no early return on a non-finite prior.
lnprob_nocut(theta, out) ==
  LET lp == lnprior(theta)
      ll == lnlike(theta, out)
  IN  [ret |-> FAdd(lp, ll.ret), raised |-> ll.raised, calls |-> ll.calls]

lnprob(theta, out) ==
  LET lp == lnprior(theta)
  IN  IF ~isfinite(lp)
      THEN [ret |-> NInf, raised |-> FALSE, calls |-> 0]
      ELSE LET ll == lnlike(theta, out)
           IN  [ret |-> FAdd(lp, ll.ret), raised |-> ll.raised, calls |-> ll.calls]

\* The stand-in for the loaded surrogate: gpr_model is an opaque, pure,
\* finite-valued function of theta; this one grows with the components.
RECURSIVE SumTheta(_, _)
SumTheta(theta, S) ==
  IF S = {} THEN 0
  ELSE LET i == CHOOSE x \in S : TRUE IN theta[i] + SumTheta(theta, S \ {i})

gpr_model_predict(theta) == Fin(desired_nrmse + SumTheta(theta, DOMAIN theta))

\* ---------------------------------------------------------- rationals
RECURSIVE GCD(_, _)
GCD(x, y) == IF y = 0 THEN x ELSE GCD(y, x % y)

Abs(x) == IF x < 0 THEN 0 - x ELSE x

\* <<n, d>> with d > 0, in lowest terms.
Rat(n, d) ==
  LET g == GCD(Abs(n), Abs(d))
      s == IF d < 0 THEN 0 - 1 ELSE 1
  IN  << (s * n) \div g, (s * d) \div g >>

RAdd(x, y) == Rat(x[1] * y[2] + y[1] * x[2], x[2] * y[2])
RSub(x, y) == Rat(x[1] * y[2] - y[1] * x[2], x[2] * y[2])
RMul(x, y) == Rat(x[1] * y[1], x[2] * y[2])
RDivInt(x, m) == Rat(x[1], x[2] * m)
RGreater(x, y) == x[1] * y[2] > y[1] * x[2]

RECURSIVE RSum(_, _)
RSum(f, S) ==
  IF S = {} THEN << 0, 1 >>
  ELSE LET i == CHOOSE x \in S : TRUE IN RAdd(f[i], RSum(f, S \ {i}))

\* ------------------------------------------------------- Gelman-Rubin
\* chains[c][s][p]: chain c (a walker), step s (1-based), parameter p.
\* An R_hat is [k |-> "fin", sq |-> R_hat^2 as a rational], or "pinf" / "nan"
\* as numpy's division by a zero W leaves it.
RhatFin(q) == [k |-> "fin", sq |-> q]
RhatInf == [k |-> "pinf", sq |-> << 0, 1 >>]
RhatNaN == [k |-> "nan", sq |-> << 0, 1 >>]

n_chains_of(chains) == Cardinality(DOMAIN chains)
n_steps_of(chains) == Len(chains[CHOOSE c \in DOMAIN chains : TRUE])

chain_means(chains, p) ==
  [c \in DOMAIN chains |->
     RDivInt(RSum([s \in DOMAIN chains[c] |-> << chains[c][s][p], 1 >>], DOMAIN chains[c]),
             n_steps_of(chains))]

overall_mean(chains, p) ==
  RDivInt(RSum([c \in DOMAIN chains |->
                  RSum([s \in DOMAIN chains[c] |-> << chains[c][s][p], 1 >>],
                       DOMAIN chains[c])], DOMAIN chains),
          n_chains_of(chains) * n_steps_of(chains))

B_over_n(chains, p) ==
  LET cm == chain_means(chains, p)
      om == overall_mean(chains, p)
  IN  RDivInt(RSum([c \in DOMAIN chains |-> RMul(RSub(cm[c], om), RSub(cm[c], om))],
                   DOMAIN chains),
              n_chains_of(chains) - 1)

\* np.var(chains, axis=1, ddof=1) of chain c; defined for n_steps >= 2.
var_ddof1(chains, c, p) ==
  LET m == chain_means(chains, p)[c]
  IN  RDivInt(RSum([s \in DOMAIN chains[c] |->
                      RMul(RSub(<< chains[c][s][p], 1 >>, m),
                           RSub(<< chains[c][s][p], 1 >>, m))], DOMAIN chains[c]),
              n_steps_of(chains) - 1)

W(chains, p) ==
  RDivInt(RSum([c \in DOMAIN chains |-> var_ddof1(chains, c, p)], DOMAIN chains),
          n_chains_of(chains))

var_hat_plus(chains, p) ==
  RAdd(RMul(Rat(n_steps_of(chains) - 1, n_steps_of(chains)), W(chains, p)),
       B_over_n(chains, p))

\* np.sqrt(var_hat_plus / W): x / 0 is inf for x > 0 and nan for x = 0.
R_hat_of(chains, p) ==
  IF n_steps_of(chains) < 2 THEN RhatNaN
  ELSE LET w == W(chains, p)
           v == var_hat_plus(chains, p)
       IN  IF w[1] = 0
           THEN (IF v[1] = 0 THEN RhatNaN ELSE RhatInf)
           ELSE RhatFin(Rat(v[1] * w[2], v[2] * w[1]))

gelman_rubin(chains) == [p \in Dims |-> R_hat_of(chains, p)]

\* R_hat > 1.1 (a comparison with nan is False).
RhatNum == 11
RhatDen == 10
ExceedsThreshold(r) ==
  CASE r.k = "pinf" -> TRUE
    [] r.k = "nan" -> FALSE
    [] OTHER -> RGreater(r.sq, << RhatNum * RhatNum, RhatDen * RhatDen >>)

\* ------------------------------------------------------------- state
VARIABLES
  call,           \* the lnprob call under test: argument, predictor answer, result
  pc,             \* the notebook's position
  pos,            \* the initial walker positions (the list `pos`)
  coords,         \* the sampler's current walker positions
  lnp,            \* the sampler's cached log-posterior per walker
  cur,            \* the walker whose proposal is next in the running half-step
  prop,           \* the last stretch-move proposal
  chain,          \* sampler.chain: chain[w][s][d], s 1-based
  chains_burned,  \* the variable chains_burned
  R_hat_values,   \* the variable R_hat_values
  i,              \* the R_hat loop's index
  printed,        \* parameters whose R_hat line was printed
  warned,         \* parameters reported in a non-convergence warning
  file,           \* the pickle file of the saved chains
  samples,        \* the flattened sample pool
  nrmse_values    \* propagation: selected sample row -> predicted NRMSE

vars == << call, pc, pos, coords, lnp, cur, prop, chain, chains_burned,
           R_hat_values, i, printed, warned, file, samples, nrmse_values >>

samplerVars == << pc, pos, coords, lnp, cur, prop, chain >>
pipeVars == << chains_burned, R_hat_values, i, printed, warned, file, samples,
               nrmse_values >>

\* ------------------------------------------------- the lnprob call
ThetaInputs == [Dims -> (0 - 1) .. (Unit + 1)]

NoCall == [theta |-> [d \in Dims |-> 0], out |-> Fin(desired_nrmse),
           ret |-> NaN, raised |-> FALSE, calls |-> 0, done |-> FALSE]

NoProp == [k |-> 0 - 1, j |-> 0 - 1, theta_j |-> [d \in Dims |-> 0],
           q |-> [d \in Dims |-> 0], accepted |-> FALSE]

Idle ==
  /\ pc = "idle"
  /\ pos = [w \in Walkers |-> [d \in Dims |-> 0]]
  /\ coords = pos
  /\ lnp = [w \in Walkers |-> NaN]
  /\ cur = 0
  /\ prop = NoProp
  /\ chain = [w \in Walkers |-> << >>]

PipeIdle ==
  /\ chains_burned = [w \in Walkers |-> << >>]
  /\ R_hat_values = [d \in Dims |-> RhatNaN]
  /\ i = 0
  /\ printed = {}
  /\ warned = {}
  /\ file = [w \in Walkers |-> << >>]
  /\ samples = << >>
  /\ nrmse_values = << >>

InitPosterior ==
  /\ \E th \in ThetaInputs, o \in PredictOutcomes :
        call = [NoCall EXCEPT !.theta = th, !.out = o]
  /\ Idle
  /\ PipeIdle

CallLnprob ==
  /\ ~call.done
  /\ LET r == lnprob(call.theta, call.out)
     IN  call' = [call EXCEPT !.ret = r.ret, !.raised = r.raised,
                              !.calls = r.calls, !.done = TRUE]
  /\ UNCHANGED samplerVars
  /\ UNCHANGED pipeVars

NextPosterior == CallLnprob

SpecPosterior == InitPosterior /\ [][NextPosterior]_vars

\* ------------------------------------------------------- the sampler
S0 == 0 .. (HalfWalkers - 1)
S1 == HalfWalkers .. (nwalkers - 1)
HalfOf(k) == IF k \in S0 THEN S0 ELSE S1
OtherHalf(k) == IF k \in S0 THEN S1 ELSE S0

\* np.random.rand draws from [0, 1): the grid points below Unit.
InitVals == 0 .. (Unit - 1)

\* Independent continuous draws leave the walkers in general position: in no
\* dimension do all walkers share one coordinate.
GeneralPosition(p) == \A d \in Dims : \E w, v \in Walkers : p[w][d] # p[v][d]

\* The stretch scale z = ((a-1)u + 1)^2 / a lies in [1/a, a); the model
\* draws z = zn / a.
ZNums == 1 .. (a * a - 1)

\* The proposal stays on the grid.
OnGrid(zn, s, c) == \A d \in Dims : (zn * (s[d] - c[d])) % a = 0

\* q = c[rint] - zz * (c[rint] - s)
Stretch(zn, s, c) == [d \in Dims |-> c[d] - (zn * (c[d] - s[d])) \div a]

\* lnpdiff = (dim - 1) * log(zz) + newlnprob - lnprob0, accepted when
\* lnpdiff > log(rand()): never for -inf or nan, else by the draw.  (A
\* rejection leaves the ensemble exactly as the draw z = 1 does.)
AcceptOutcomes(newlnprob, lnprob0) ==
  CASE newlnprob.k = "nan" \/ lnprob0.k = "nan" -> { FALSE }
    [] newlnprob.k = "ninf" -> { FALSE }
    [] newlnprob.k = "pinf" \/ lnprob0.k = "ninf" -> { TRUE }
    [] lnprob0.k = "pinf" -> { FALSE }
    [] OTHER -> BOOLEAN

\* The positions the ensemble had when the running step began.
StepStart(w) == IF Len(chain[w]) = 0 THEN pos[w] ELSE chain[w][Len(chain[w])]

\* Variant: both halves read the positions of the step's start.
PartnerPosStale(j) == StepStart(j)

\* The complementary walker's position a proposal reads.
PartnerPos(j) == coords[j]

InitSampler ==
  /\ call = NoCall
  /\ pc = "run_mcmc"
  /\ pos \in [Walkers -> [Dims -> InitVals]]
  /\ GeneralPosition(pos)
  /\ coords = pos
  /\ lnp = [w \in Walkers |-> NaN]
  /\ cur = 0
  /\ prop = NoProp
  /\ chain = [w \in Walkers |-> << >>]
  /\ PipeIdle

\* run_mcmc: the log-posterior of the initial positions.
RunStart ==
  /\ pc = "run_mcmc"
  /\ lnp' = [w \in Walkers |-> lnprob(coords[w], gpr_model_predict(coords[w])).ret]
  /\ pc' = "half"
  /\ cur' = 0
  /\ UNCHANGED << call, pos, coords, prop, chain >>
  /\ UNCHANGED pipeVars

\* One walker's stretch move within the running half-step.
Propose ==
  /\ pc = "half"
  /\ \E j \in OtherHalf(cur), zn \in ZNums :
       /\ OnGrid(zn, coords[cur], PartnerPos(j))
       /\ LET q == Stretch(zn, coords[cur], PartnerPos(j))
              newlnprob == lnprob(q, gpr_model_predict(q)).ret
          IN  \E acc \in AcceptOutcomes(newlnprob, lnp[cur]) :
                /\ coords' = IF acc THEN [coords EXCEPT ![cur] = q] ELSE coords
                /\ lnp' = IF acc THEN [lnp EXCEPT ![cur] = newlnprob] ELSE lnp
                /\ prop' = [k |-> cur, j |-> j, theta_j |-> PartnerPos(j),
                            q |-> q, accepted |-> acc]
  /\ IF cur = nwalkers - 1
     THEN pc' = "record" /\ cur' = 0
     ELSE pc' = "half" /\ cur' = cur + 1
  /\ UNCHANGED << call, pos, chain >>
  /\ UNCHANGED pipeVars

\* The step's slice of the chain.
RecordSlice ==
  /\ pc = "record"
  /\ chain' = [w \in Walkers |-> Append(chain[w], coords[w])]
  /\ pc' = IF Len(chain[0]) + 1 = nsteps THEN "trim" ELSE "half"
  /\ UNCHANGED << call, pos, coords, lnp, cur, prop >>
  /\ UNCHANGED pipeVars

\* ------------------------------------------------------ the pipeline
\* Variant: the burn-in rounded up instead of down.
burnin_rounded_up == (nsteps + 1) \div 2

burnin == nsteps \div 2

\* chains_burned = sampler.chain[:, burnin:, :]
TrimBurnin ==
  /\ pc = "trim"
  /\ chains_burned' = [w \in Walkers |-> SubSeq(chain[w], burnin + 1, Len(chain[w]))]
  /\ pc' = "gelman_rubin"
  /\ UNCHANGED << call, pos, coords, lnp, cur, prop, chain >>
  /\ UNCHANGED << R_hat_values, i, printed, warned, file, samples, nrmse_values >>

\* R_hat_values = gelman_rubin(chains_burned)
ComputeRhat ==
  /\ pc = "gelman_rubin"
  /\ R_hat_values' = gelman_rubin(chains_burned)
  /\ i' = 0
  /\ pc' = "check"
  /\ UNCHANGED << call, pos, coords, lnp, cur, prop, chain >>
  /\ UNCHANGED << chains_burned, printed, warned, file, samples, nrmse_values >>

\* Variant: the warning printed, the assertion forgotten.
CheckRhat_warn_only ==
  /\ pc = "check"
  /\ i < ndim
  /\ printed' = printed \cup { i }
  /\ warned' = IF ExceedsThreshold(R_hat_values[i]) THEN warned \cup { i } ELSE warned
  /\ pc' = IF i + 1 = ndim THEN "save" ELSE "check"
  /\ i' = i + 1
  /\ UNCHANGED << call, pos, coords, lnp, cur, prop, chain >>
  /\ UNCHANGED << chains_burned, R_hat_values, file, samples, nrmse_values >>

\* Variant: every dimension examined before the run is ended.
CheckRhat_collect_all ==
  /\ pc = "check"
  /\ i < ndim
  /\ printed' = printed \cup { i }
  /\ warned' = IF ExceedsThreshold(R_hat_values[i]) THEN warned \cup { i } ELSE warned
  /\ pc' = IF i + 1 < ndim THEN "check"
           ELSE IF warned' # {} THEN "aborted" ELSE "save"
  /\ i' = IF i + 1 = ndim /\ warned' # {} THEN i ELSE i + 1
  /\ UNCHANGED << call, pos, coords, lnp, cur, prop, chain >>
  /\ UNCHANGED << chains_burned, R_hat_values, file, samples, nrmse_values >>

\* One pass of `for i, R_hat in enumerate(R_hat_values)`: the R_hat line is
\* printed; above the threshold the warning is printed and `assert False`
\* ends the run.
CheckRhat ==
  /\ pc = "check"
  /\ i < ndim
  /\ printed' = printed \cup { i }
  /\ IF ExceedsThreshold(R_hat_values[i])
     THEN /\ warned' = warned \cup { i }
          /\ pc' = "aborted"
          /\ i' = i
     ELSE /\ warned' = warned
          /\ pc' = IF i + 1 = ndim THEN "save" ELSE "check"
          /\ i' = i + 1
  /\ UNCHANGED << call, pos, coords, lnp, cur, prop, chain >>
  /\ UNCHANGED << chains_burned, R_hat_values, file, samples, nrmse_values >>

\* joblib.dump(chains_burned, ...)
SaveChains ==
  /\ pc = "save"
  /\ file' = chains_burned
  /\ pc' = "load"
  /\ UNCHANGED << call, pos, coords, lnp, cur, prop, chain >>
  /\ UNCHANGED << chains_burned, R_hat_values, i, printed, warned, samples, nrmse_values >>

\* arr.reshape((-1, cols)) of a C-ordered (n_chains, n_steps, n_parameters)
\* array: row r, column c is the flat element r * cols + c, and the flat
\* element (w * n_steps + s) * n_parameters + d is arr[w, s, d].
FlatAt(arr, x) ==
  LET np == ndim
      ns == n_steps_of(arr)
      w == x \div (ns * np)
      s == (x % (ns * np)) \div np
      d == x % np
  IN  arr[w][s + 1][d]

reshape_rows(arr, cols) ==
  LET total == n_chains_of(arr) * n_steps_of(arr) * ndim
  IN  [r \in 1 .. (total \div cols) |->
         [c \in 0 .. (cols - 1) |-> FlatAt(arr, (r - 1) * cols + c)]]

\* chains_burned = joblib.load(...); samples = chains_burned.reshape((-1, 5))
\* (the literal 5 is ndim).
LoadFlatten ==
  /\ pc = "load"
  /\ chains_burned' = file
  /\ samples' = reshape_rows(file, ndim)
  /\ pc' = "summary"
  /\ UNCHANGED << call, pos, coords, lnp, cur, prop, chain >>
  /\ UNCHANGED << R_hat_values, i, printed, warned, file, nrmse_values >>

\* The trace-plot and posterior-density cells: they read chains_incl_burned
\* and samples (per-parameter 2.5 / 97.5 percentiles) and change no variable
\* that a later cell reads.
Summarize ==
  /\ pc = "summary"
  /\ pc' = "propagate"
  /\ UNCHANGED << call, pos, coords, lnp, cur, prop, chain >>
  /\ UNCHANGED pipeVars

\* selected_samples = samples[np.random.choice(len(samples), n_samples,
\* replace=False)] and one gpr_model.predict per selected sample.
Propagate ==
  /\ pc = "propagate"
  /\ \E sel \in SUBSET (1 .. Len(samples)) :
       /\ Cardinality(sel) = n_samples
       /\ nrmse_values' = [r \in sel |-> gpr_model_predict(samples[r])]
  /\ pc' = "done"
  /\ UNCHANGED << call, pos, coords, lnp, cur, prop, chain >>
  /\ UNCHANGED << chains_burned, R_hat_values, i, printed, warned, file, samples >>

\* The run up to the R_hat gate, with the chain the sampler produced.
Next ==
  \/ RunStart
  \/ Propose
  \/ RecordSlice
  \/ TrimBurnin
  \/ ComputeRhat
  \/ CheckRhat

Init == InitSampler

Spec == Init /\ [][Next]_vars

\* The cells after run_mcmc, over every chain of the model's shape whose
\* slices lie in the prior's box and are in general position (both are kept
\* by the sampler: BoxKept, GeneralPositionKept).  The sampler's own state is
\* not read by these cells: coords is the last slice, pos a first step that
\* rejected every proposal.
ChainVals == { 0, 1, Unit }

Ensembles == { e \in [Walkers -> [Dims -> ChainVals]] : GeneralPosition(e) }

InitPipeline ==
  /\ call = NoCall
  /\ pc = "trim"
  /\ \E slices \in [1 .. nsteps -> Ensembles] :
       chain = [w \in Walkers |-> [s \in 1 .. nsteps |-> slices[s][w]]]
  /\ pos = [w \in Walkers |-> chain[w][1]]
  /\ coords = [w \in Walkers |-> chain[w][nsteps]]
  /\ lnp = [w \in Walkers |-> lnprob(coords[w], gpr_model_predict(coords[w])).ret]
  /\ cur = 0
  /\ prop = NoProp
  /\ PipeIdle

NextPipeline ==
  \/ TrimBurnin
  \/ ComputeRhat
  \/ CheckRhat
  \/ SaveChains
  \/ LoadFlatten
  \/ Summarize
  \/ Propagate

SpecPipeline == InitPipeline /\ [][NextPipeline]_vars

\* ------------------------------------------------------------ claims
InBox(theta) == \A d \in DOMAIN theta : 0 <= theta[d] /\ theta[d] <= Unit

\* R_hat > 1.1 and R_hat <= 1.1 read off the stored value (sq is R_hat^2).
RhatAbove(r) == r.k = "pinf" \/ (r.k = "fin" /\ 100 * r.sq[1] > 121 * r.sq[2])
RhatAtMost(r) == r.k = "fin" /\ 100 * r.sq[1] <= 121 * r.sq[2]

Offending == { d \in Dims : RhatAbove(R_hat_values[d]) }
MinOf(S) == CHOOSE x \in S : \A y \in S : x <= y
GateDecided == pc \notin { "idle", "run_mcmc", "half", "record", "trim",
                           "gelman_rubin", "check" }
EmptyChains == [w \in Walkers |-> << >>]
kept_steps == nsteps - (nsteps \div 2)

\* Facts about the sampler that InitPipeline relies on.
BoxKept == \A w \in Walkers : InBox(coords[w])
GeneralPositionKept == GeneralPosition(coords)

\* C1: once the R_hat of some dimension, computed on the burn-in-trimmed
\* chain, exceeds 1.1, the run never saves, flattens, summarizes or
\* propagates; those cells are reached only after a check that printed every
\* dimension and found every R_hat <= 1.1.
C1_HardGate ==
  /\ (pc \notin { "trim", "gelman_rubin" } /\ \E d \in Dims : RhatAbove(R_hat_values[d]))
       => /\ pc \in { "check", "aborted" }
          /\ file = EmptyChains
          /\ samples = << >>
          /\ nrmse_values = << >>
  /\ (pc \in { "save", "load", "summary", "propagate", "done" }
         \/ samples # << >> \/ nrmse_values # << >>)
       => /\ printed = Dims
          /\ \A d \in Dims : RhatAtMost(R_hat_values[d])
          /\ R_hat_values = gelman_rubin([w \in Walkers |->
                               SubSeq(chain[w], (nsteps \div 2) + 1, nsteps)])

\* C1 witness: the run was stopped by the last dimension alone.
C1_Witness ==
  /\ pc = "aborted"
  /\ i = ndim - 1
  /\ RhatAbove(R_hat_values[i])
  /\ \A d \in Dims : d < i => RhatAtMost(R_hat_values[d])
  /\ samples = << >>

\* C2: for a theta with a component below 0 or above 1, lnprob returns
\* -infinity and the predictor is not invoked during the call.
C2_OutOfBoxShortCircuit ==
  (call.done /\ ~InBox(call.theta))
    => (call.ret = NInf /\ call.calls = 0 /\ ~call.raised)

\* C2 witness: only the last component is out of the box, and the predictor
\* would have raised had it been called.
C2_Witness ==
  /\ call.done
  /\ \A d \in Dims : d < ndim - 1 => (0 <= call.theta[d] /\ call.theta[d] <= Unit)
  /\ call.theta[ndim - 1] > Unit
  /\ call.out.k = "raise"
  /\ call.ret = NInf

\* C3: for a theta inside [0,1]^d, endpoints included, and a predictor that
\* answers p, lnprob returns -0.5 * ((p - desired_nrmse) / desired_std)^2
\* after exactly one predictor call.
C3_InBoxIsLikelihood ==
  (call.done /\ InBox(call.theta) /\ call.out.k = "fin")
    => /\ call.ret.k = "fin"
       /\ 2 * desired_std * desired_std * call.ret.v
            = (0 - 1) * (call.out.v - desired_nrmse) * (call.out.v - desired_nrmse) * LogDen
       /\ call.calls = 1
       /\ ~call.raised

\* C3 witness: a theta on both endpoints of the box, predictor off target.
C3_Witness ==
  /\ call.done
  /\ call.theta[0] = 0
  /\ call.theta[ndim - 1] = Unit
  /\ call.out.k = "fin"
  /\ call.out.v # desired_nrmse
  /\ call.ret.k = "fin"
  /\ call.ret.v < 0

\* C4: when the within-chain variance W of a dimension is zero, no infinite
\* or NaN R_hat is handed to the threshold check (the diagnostic signals the
\* degenerate variance instead).
C4_DegenerateVarianceFlagged ==
  (pc \in { "check", "aborted", "save" })
    => \A d \in Dims :
         W(chains_burned, d)[1] = 0 => R_hat_values[d].k \notin { "pinf", "nan" }

\* C6: when the predictor raises or answers a non-finite value for a theta
\* inside the box, lnprob returns -infinity and nothing is raised.
C6_PredictorFailureRejected ==
  (call.done /\ InBox(call.theta) /\ call.out.k # "fin")
    => (call.ret = NInf /\ ~call.raised)

C8_TrimFlattenCount ==
  /\ pc # "trim"
       => \A w \in Walkers :
            /\ Len(chains_burned[w]) = kept_steps
            /\ \A s \in 1 .. kept_steps :
                 chains_burned[w][s] = chain[w][(nsteps \div 2) + s]
  /\ pc \in { "summary", "propagate", "done" }
       => /\ Len(samples) = nwalkers * kept_steps
          /\ \A w \in Walkers : \A s \in 1 .. kept_steps :
               /\ DOMAIN samples[w * kept_steps + s] = Dims
               /\ samples[w * kept_steps + s] = chain[w][(nsteps \div 2) + s]

\* C8 witness: a flattened pool whose walkers moved during burn-in and
\* between the retained steps.
C8_Witness ==
  /\ pc = "done"
  /\ Len(samples) = nwalkers * kept_steps
  /\ chain[0][nsteps \div 2] # chain[0][(nsteps \div 2) + 1]
  /\ samples[1] # samples[2]
  /\ samples[1] # samples[kept_steps + 1]

\* C9: a proposal's partner belongs to the other half and is read at its
\* current position, so the second half sees the first half as already
\* updated in the same step; a slice is recorded once per step, after both
\* halves, and equals the ensemble at that moment.
C9_SequentialHalves ==
  /\ prop.k >= 0
       => /\ prop.j \in Walkers
          /\ (prop.k \in S0) = (prop.j \in S1)
          /\ prop.theta_j = coords[prop.j]
  /\ \A w \in Walkers : Len(chain[w]) = Len(chain[0])
  /\ (pc = "half" /\ cur = 0 /\ Len(chain[0]) > 0)
       => \A w \in Walkers : chain[w][Len(chain[w])] = coords[w]
  /\ (pc = "half" /\ cur > 0) => prop.k = cur - 1
  /\ pc = "record" => prop.k = nwalkers - 1

\* C9 witness: a second-half proposal whose first-half partner had moved
\* earlier in the same step.
C9_Witness ==
  /\ pc = "record"
  /\ prop.k \in S1
  /\ prop.j \in S0
  /\ coords[prop.j] # StepStart(prop.j)
  /\ prop.theta_j = coords[prop.j]

\* C10: every walker's position, every recorded chain slice and every
\* trimmed or flattened sample lies in [0,1]^d, every cached log-posterior
\* is finite, and no out-of-box proposal is accepted.
C10_WalkersInBox ==
  /\ \A w \in Walkers :
       /\ InBox(coords[w])
       /\ \A s \in DOMAIN chain[w] : InBox(chain[w][s])
       /\ \A s \in DOMAIN chains_burned[w] : InBox(chains_burned[w][s])
       /\ pc # "run_mcmc" => lnp[w].k = "fin"
  /\ \A r \in DOMAIN samples : InBox(samples[r])
  /\ (prop.k >= 0 /\ prop.accepted) => InBox(prop.q)

\* C10 witness: after a recorded step, a proposal above the box was rejected.
C10_Witness ==
  /\ Len(chain[0]) >= 1
  /\ prop.k >= 0
  /\ \E d \in Dims : prop.q[d] > Unit
  /\ ~prop.accepted
  /\ coords[prop.k] # pos[prop.k]

=============================================================================
